---- MODULE Spec2Model ----
(***************************************************************************)
(* Model of the disposable-domain cache manager                            *)
(* (internal/service/disposable.go) and of its start-up in                 *)
(* cmd/server/main.go.                                                     *)
(*                                                                         *)
(* Strings are sequences of one-character strings, so that trimming,       *)
(* lowercasing, splitting and line scanning are computed, not assumed.     *)
(* Two threads of control can run refresh(): "main", inside Start, and     *)
(* "loop", the autoRefresh goroutine.  Readers are the goroutines that     *)
(* call IsDisposable and IsReady, on behalf of the validation and the     *)
(* health handler, whose HTTP answer is part of the returning step.        *)
(* SpecParse explores parseTxtFile alone, over all short bodies.           *)
(* SpecSources runs the service, never cancelled and with fairness, in    *)
(* front of two origins that each serve one list under one token.          *)
(***************************************************************************)
EXTENDS Integers, Sequences, FiniteSets, TLC

(* ---------------------------------------------------------------------- *)
(* Bounds                                                                  *)
(* ---------------------------------------------------------------------- *)

\* The clock stops the model after MaxTime network fetches.
MaxTime == 3

\* The longest body on which parseTxtFile is explored exhaustively
MaxBodyLen == 4

(* ---------------------------------------------------------------------- *)
(* Program constants                                                       *)
(* ---------------------------------------------------------------------- *)

StatusOK == 200
StatusNotModified == 304
StatusServerError == 500
StatusBadRequest == 400
StatusMethodNotAllowed == 405
StatusServiceUnavailable == 503

\* The message id of a rejected disposable email (domain.NewErrorResponse)
DisposableMessageID == 4000001

(* ---------------------------------------------------------------------- *)
(* strings package                                                         *)
(* ---------------------------------------------------------------------- *)

\* unicode.ToLower on the letters of the alphabet used here
LowerRune(c) ==
  CASE c = "A" -> "a"
    [] c = "B" -> "b"
    [] c = "X" -> "x"
    [] OTHER -> c

ToLower(s) == [k \in 1..Len(s) |-> LowerRune(s[k])]

IsSpace(c) == c \in {" ", "\t", "\n", "\r"}

RECURSIVE TrimLeft(_)
TrimLeft(s) ==
  IF s # <<>> /\ IsSpace(Head(s)) THEN TrimLeft(Tail(s)) ELSE s

RECURSIVE TrimRight(_)
TrimRight(s) ==
  IF s # <<>> /\ IsSpace(s[Len(s)]) THEN TrimRight(SubSeq(s, 1, Len(s) - 1)) ELSE s

TrimSpace(s) == TrimRight(TrimLeft(s))

HasPrefix(s, c) == s # <<>> /\ Head(s) = c

\* strings.Split(s, sep) for a one-character separator: the pieces between
\* the separators, from left to right; n separators give n+1 pieces.
RECURSIVE SplitFrom(_, _, _)
SplitFrom(s, sep, cur) ==
  IF s = <<>> THEN <<cur>>
  ELSE IF Head(s) = sep THEN <<cur>> \o SplitFrom(Tail(s), sep, <<>>)
  ELSE SplitFrom(Tail(s), sep, Append(cur, Head(s)))

Split(s, sep) == SplitFrom(s, sep, <<>>)

(* ---------------------------------------------------------------------- *)
(* bufio.Scanner with the default ScanLines split function                 *)
(* ---------------------------------------------------------------------- *)

DropCR(l) == IF l # <<>> /\ l[Len(l)] = "\r" THEN SubSeq(l, 1, Len(l) - 1) ELSE l

\* The lines of a body: each newline ends a line; a last line without a
\* newline is returned when it is not empty; a trailing "\r" is dropped.
ScanLines(body) ==
  LET pieces == Split(body, "\n")
      n      == Len(pieces)
      kept   == IF pieces[n] = <<>> THEN SubSeq(pieces, 1, n - 1) ELSE pieces
  IN  [k \in 1..Len(kept) |-> DropCR(kept[k])]

(* ---------------------------------------------------------------------- *)
(* Pure functions of the service                                           *)
(* ---------------------------------------------------------------------- *)

\* A variant of parseTxtFile without the check for an empty result
parseTxtFile_AllowEmpty(body, ioerr) ==
  LET lines == ScanLines(body)
      found == { ToLower(TrimSpace(lines[k])) :
                   k \in { j \in 1..Len(lines) :
                             /\ TrimSpace(lines[j]) # <<>>
                             /\ ~HasPrefix(TrimSpace(lines[j]), "#") } }
  IN  IF ioerr THEN [err |-> "scan", domains |-> {}]
      ELSE [err |-> "nil", domains |-> found]

\* A variant of parseTxtFile that looks for the '#' before it trims the line
parseTxtFile_CommentBeforeTrim(body, ioerr) ==
  LET lines == ScanLines(body)
      found == { ToLower(TrimSpace(lines[k])) :
                   k \in { j \in 1..Len(lines) :
                             /\ TrimSpace(lines[j]) # <<>>
                             /\ ~HasPrefix(lines[j], "#") } }
  IN  IF ioerr THEN [err |-> "scan", domains |-> {}]
      ELSE IF Cardinality(found) = 0 THEN [err |-> "empty", domains |-> {}]
      ELSE [err |-> "nil", domains |-> found]

\* parseTxtFile: ioerr is scanner.Err() # nil (a read error or an oversized
\* line); the result is [err, domains].
parseTxtFile(body, ioerr) ==
  LET lines == ScanLines(body)
      found == { ToLower(TrimSpace(lines[k])) :
                   k \in { j \in 1..Len(lines) :
                             /\ TrimSpace(lines[j]) # <<>>
                             /\ ~HasPrefix(TrimSpace(lines[j]), "#") } }
  IN  IF ioerr THEN [err |-> "scan", domains |-> {}]
      ELSE IF Cardinality(found) = 0 THEN [err |-> "empty", domains |-> {}]
      ELSE [err |-> "nil", domains |-> found]

\* A variant of extractDomain that forgets to lowercase the email
extractDomain_NoLower(email) ==
  LET parts == Split(TrimSpace(email), "@")
  IN  IF Len(parts) # 2 THEN <<>>
      ELSE parts[2]

\* A variant of extractDomain that takes what follows the last '@'
extractDomain_LastAt(email) ==
  LET parts == Split(TrimSpace(ToLower(email)), "@")
  IN  IF Len(parts) < 2 THEN <<>>
      ELSE parts[Len(parts)]

\* extractDomain: <<>> stands for the empty string
extractDomain(email) ==
  LET parts == Split(TrimSpace(ToLower(email)), "@")
  IN  IF Len(parts) # 2 THEN <<>>
      ELSE parts[2]

(* ---------------------------------------------------------------------- *)
(* Configuration and environment                                           *)
(* ---------------------------------------------------------------------- *)

URLs == {"A", "B"}

\* The configured source lists (cfg.ListURLs), in priority order
Configs == {<<"A">>, <<"A", "B">>}

\* Values of the ETag response header; "" is a response without one
ETags == {"", "e1", "e2"}

BodyNone    == <<>>
BodyComment == <<"#", "a", "\n", " ", "\n">>
BodyA       == <<"A", "\n">>
BodyB       == <<"b">>
BodyAB      == <<"#", "\n", " ", "b", " ", "\r", "\n", "a", "\n", "B", "\n">>

Bodies == {BodyNone, BodyComment, BodyA, BodyB, BodyAB}

\* What the transport can answer to one GET: status 0 is a transport error
\* (httpClient.Do returns err); ioerr is a read error while scanning the body.
Responses ==
  {[status |-> c, body |-> BodyNone, etag |-> "", ioerr |-> FALSE] :
      c \in {0, StatusNotModified, StatusServerError}}
  \cup
  {[status |-> StatusOK, body |-> b, etag |-> e, ioerr |-> FALSE] :
      b \in Bodies, e \in ETags}
  \cup
  {[status |-> StatusOK, body |-> BodyA, etag |-> "e1", ioerr |-> TRUE]}

\* The emails the readers ask about
Emails ==
  { <<"x", "@", "a">>,
    <<" ", "X", "@", "B", "\n">>,
    <<"x", "@", "c">>,
    <<"@", "a">>,
    <<"x", "a">>,
    <<"x", "@">>,
    <<"x", "@", "a", "@", "b">>,
    <<"x", "@", " ">>,
    <<"@", "@">>,
    <<"@">>,
    <<>> }

Threads == {"main", "loop"}
\* The goroutines that call IsDisposable and IsReady
Readers == {"r1"}

(* ---------------------------------------------------------------------- *)
(* State                                                                   *)
(* ---------------------------------------------------------------------- *)

VARIABLES
  listURLs,      \* DisposableEmailService.listURLs
  domains,       \* DisposableEmailService.domains (the set of keys)
  lastRefresh,   \* DisposableEmailService.lastRefresh (0 is the zero time)
  isReady,       \* DisposableEmailService.isReady
  etags,         \* DisposableEmailService.etags ("" is a missing key)
  muWriter,      \* mu: the thread holding the exclusive lock, or "none"
  muReaders,     \* mu: the readers holding the shared lock
  now,           \* time.Now()
  ctxDone,       \* the context given to Start has been cancelled
  tickPending,   \* a tick is waiting in ticker.C
  pc,            \* position of each thread
  idx,           \* refresh: index of the URL of this iteration (1-based)
  lastErr,       \* refresh: lastErr
  req,           \* fetchFromURL: the request being sent
  fetched,       \* refresh: domains, newETag returned by fetchFromURL
  refreshRet,    \* what the thread's last refresh() returned
  snap,          \* history: the cache state when the cycle began
  hist,          \* history: the outcome of each source in this cycle
  startRet,      \* what Start returned
  startCycles,   \* history: refresh cycles completed inside Start
  everLoaded,    \* history: some refresh cycle has ended in a successful load
  rpc,           \* position of each reader
  remail,        \* IsDisposable: email
  rdomain,       \* IsDisposable: emailDomain
  rready,        \* IsDisposable: ready
  rret,          \* what the reader's call returned
  readyObserved, \* history: some IsReady call has returned true
  rresp,         \* rresp[r]: the HTTP response the handler of reader r wrote
  parseIn,       \* the body handed to parseTxtFile, with the scanner's error
  parseOut       \* what parseTxtFile returned for it

svc     == <<listURLs, domains, lastRefresh, isReady, etags>>
mu      == <<muWriter, muReaders>>
locals  == <<idx, lastErr, req, fetched, refreshRet, snap, hist>>
readers == <<rpc, remail, rdomain, rready, rret, readyObserved, rresp>>
ghost   == <<startCycles, everLoaded>>
parse   == <<parseIn, parseOut>>
vars    == <<svc, mu, now, ctxDone, tickPending, pc, locals, startRet, ghost,
             readers, parse>>

NoReq     == [url |-> "", ifNoneMatch |-> ""]
NoFetched == [domains |-> {}, newETag |-> ""]
NoSnap    == [domains |-> {}, isReady |-> FALSE, etags |-> [u \in URLs |-> ""],
              lastRefresh |-> 0]
NoRet     == [op |-> "", val |-> FALSE, domain |-> <<>>, err |-> ""]
NoInput   == [body |-> <<>>, ioerr |-> FALSE]
NoParse   == [err |-> "none", domains |-> {}]
NoResp    == [status |-> 0, id |-> 0, text |-> "", ptr |-> "",
              email |-> <<>>, domain |-> <<>>]

\* NewDisposableEmailService, and main before it calls Start
InitService ==
  /\ listURLs \in Configs
  /\ domains = {}
  /\ lastRefresh = 0
  /\ isReady = FALSE
  /\ etags = [u \in URLs |-> ""]
  /\ muWriter = "none"
  /\ muReaders = {}
  /\ now = 0
  /\ ctxDone = FALSE
  /\ tickPending = FALSE
  /\ pc = [t \in Threads |-> IF t = "main" THEN "start" ELSE "off"]
  /\ idx = [t \in Threads |-> 0]
  /\ lastErr = [t \in Threads |-> "nil"]
  /\ req = [t \in Threads |-> NoReq]
  /\ fetched = [t \in Threads |-> NoFetched]
  /\ refreshRet = [t \in Threads |-> "none"]
  /\ snap = [t \in Threads |-> NoSnap]
  /\ hist = [t \in Threads |-> <<>>]
  /\ startRet = "none"
  /\ startCycles = 0
  /\ everLoaded = FALSE
  /\ rpc = [r \in Readers |-> "idle"]
  /\ remail = [r \in Readers |-> <<>>]
  /\ rdomain = [r \in Readers |-> <<>>]
  /\ rready = [r \in Readers |-> FALSE]
  /\ rret = [r \in Readers |-> NoRet]
  /\ readyObserved = FALSE
  /\ rresp = [r \in Readers |-> NoResp]

Init ==
  /\ InitService
  /\ parseIn = NoInput
  /\ parseOut = NoParse

(* ---------------------------------------------------------------------- *)
(* refresh and fetchFromURL, run by thread t                               *)
(* ---------------------------------------------------------------------- *)

CacheState ==
  [domains |-> domains, isReady |-> isReady, etags |-> etags,
   lastRefresh |-> lastRefresh]

\* Entry of refresh(): lastErr is nil and the loop starts at the first URL.
RefreshEnter(t) ==
  /\ idx' = [idx EXCEPT ![t] = 1]
  /\ lastErr' = [lastErr EXCEPT ![t] = "nil"]
  /\ refreshRet' = [refreshRet EXCEPT ![t] = "none"]
  /\ snap' = [snap EXCEPT ![t] = CacheState]
  /\ hist' = [hist EXCEPT ![t] = <<>>]
  /\ UNCHANGED <<req, fetched>>

\* The caller has the result of refresh(): its locals are gone.
RefreshLeave(t) ==
  /\ idx' = [idx EXCEPT ![t] = 0]
  /\ lastErr' = [lastErr EXCEPT ![t] = "nil"]
  /\ refreshRet' = [refreshRet EXCEPT ![t] = "none"]
  /\ snap' = [snap EXCEPT ![t] = NoSnap]
  /\ hist' = [hist EXCEPT ![t] = <<>>]
  /\ UNCHANGED <<req, fetched>>

\* History: a refresh cycle of thread t ends in this step.
CountCycle(t) ==
  startCycles' = IF t = "main" THEN startCycles + 1 ELSE startCycles

\* A variant of Outcome that takes a body without entries for a success
Outcome_EmptyIsSuccess(resp) ==
  LET parsed == parseTxtFile(resp.body, resp.ioerr)
  IN  IF resp.status = 0 THEN [out |-> "failure", cause |-> "fetch"]
      ELSE IF resp.status = StatusNotModified
        THEN [out |-> "unchanged", cause |-> "nil"]
      ELSE IF resp.status # StatusOK
        THEN [out |-> "failure", cause |-> "status"]
      ELSE IF parsed.err = "scan"
        THEN [out |-> "failure", cause |-> parsed.err]
      ELSE [out |-> "success", cause |-> "nil"]

\* How refresh classifies what fetchFromURL returns for a response
Outcome(resp) ==
  LET parsed == parseTxtFile(resp.body, resp.ioerr)
  IN  IF resp.status = 0 THEN [out |-> "failure", cause |-> "fetch"]
      ELSE IF resp.status = StatusNotModified
        THEN [out |-> "unchanged", cause |-> "nil"]
      ELSE IF resp.status # StatusOK
        THEN [out |-> "failure", cause |-> "status"]
      ELSE IF parsed.err # "nil"
        THEN [out |-> "failure", cause |-> parsed.err]
      ELSE [out |-> "success", cause |-> "nil"]

\* fetchFromURL(url) for the URL of this iteration: s.mu.RLock()
FetchRLock(t) ==
  /\ pc[t] = "iter"
  /\ idx[t] <= Len(listURLs)
  /\ muWriter = "none"
  /\ muReaders' = muReaders \cup {t}
  /\ pc' = [pc EXCEPT ![t] = "f_etag"]
  /\ UNCHANGED <<parse, svc, muWriter, now, ctxDone, tickPending, locals, startRet,
                 ghost, readers>>

\* A variant of FetchReadETag that sends the token of the first configured
\* URL with every request
FetchReadETag_FirstURL(t) ==
  /\ pc[t] = "f_etag"
  /\ req' = [req EXCEPT ![t] = [url |-> listURLs[idx[t]],
                                ifNoneMatch |-> etags[listURLs[1]]]]
  /\ muReaders' = muReaders \ {t}
  /\ pc' = [pc EXCEPT ![t] = "http"]
  /\ UNCHANGED <<parse, svc, muWriter, now, ctxDone, tickPending, idx, lastErr,
                 fetched, refreshRet, snap, hist, startRet, ghost, readers>>

\* A variant of FetchReadETag that keeps the shared lock during the request
FetchReadETag_KeepsLock(t) ==
  /\ pc[t] = "f_etag"
  /\ req' = [req EXCEPT ![t] = [url |-> listURLs[idx[t]],
                                ifNoneMatch |-> etags[listURLs[idx[t]]]]]
  /\ pc' = [pc EXCEPT ![t] = "http"]
  /\ UNCHANGED <<parse, svc, mu, now, ctxDone, tickPending, idx, lastErr, fetched,
                 refreshRet, snap, hist, startRet, ghost, readers>>

\* etag := s.etags[url]; s.mu.RUnlock(): the stored ETag is what the
\* request sends as If-None-Match.
FetchReadETag(t) ==
  /\ pc[t] = "f_etag"
  /\ req' = [req EXCEPT ![t] = [url |-> listURLs[idx[t]],
                                ifNoneMatch |-> etags[listURLs[idx[t]]]]]
  /\ muReaders' = muReaders \ {t}
  /\ pc' = [pc EXCEPT ![t] = "http"]
  /\ UNCHANGED <<parse, svc, muWriter, now, ctxDone, tickPending, idx, lastErr,
                 fetched, refreshRet, snap, hist, startRet, ghost, readers>>

\* What refresh does with the answer resp to the request of thread t: the
\* status checks and parseTxtFile of fetchFromURL, then the branch of
\* refresh on the result; a failure continues with the next URL.
Received(t, resp) ==
  LET o == Outcome(resp)
      parsed == parseTxtFile(resp.body, resp.ioerr)
      entry == [url |-> req[t].url, status |-> resp.status,
                body |-> resp.body, out |-> o.out, cause |-> o.cause,
                domains |-> IF o.out = "success" THEN parsed.domains ELSE {},
                etag |-> IF o.out = "success" THEN resp.etag ELSE ""]
  IN  /\ hist' = [hist EXCEPT ![t] = Append(@, entry)]
      /\ req' = [req EXCEPT ![t] = NoReq]
      /\ IF o.out = "failure"
           THEN /\ lastErr' = [lastErr EXCEPT ![t] = o.cause]
                /\ idx' = [idx EXCEPT ![t] = @ + 1]
                /\ pc' = [pc EXCEPT ![t] = "iter"]
                /\ UNCHANGED fetched
         ELSE IF o.out = "unchanged"
           THEN /\ pc' = [pc EXCEPT ![t] = "nm_lock"]
                /\ UNCHANGED <<lastErr, idx, fetched>>
         ELSE   /\ fetched' = [fetched EXCEPT ![t] =
                                 [domains |-> parsed.domains,
                                  newETag |-> resp.etag]]
                /\ pc' = [pc EXCEPT ![t] = "sw_lock"]
                /\ UNCHANGED <<lastErr, idx>>

\* httpClient.Do answers the request of thread t, with any response; the
\* clock has moved on by then.
HttpDo(t) ==
  /\ pc[t] = "http"
  /\ now < MaxTime
  /\ \E resp \in Responses : Received(t, resp)
  /\ now' = now + 1
  /\ UNCHANGED <<parse, svc, mu, ctxDone, tickPending, refreshRet, snap, startRet, ghost,
                 readers>>

\* status == http.StatusNotModified: s.mu.Lock()
NotModifiedLock(t) ==
  /\ pc[t] = "nm_lock"
  /\ muWriter = "none"
  /\ muReaders = {}
  /\ muWriter' = t
  /\ pc' = [pc EXCEPT ![t] = "nm_cs"]
  /\ UNCHANGED <<parse, svc, muReaders, now, ctxDone, tickPending, locals, startRet, ghost,
                 readers>>

\* A variant of NotModifiedCheck that takes "unchanged" for a load when the
\* cache has no data: it marks the cache ready and returns nil
NotModifiedCheck_ReadyOn304(t) ==
  /\ pc[t] = "nm_cs"
  /\ muWriter' = "none"
  /\ lastRefresh' = now
  /\ isReady' = TRUE
  /\ refreshRet' = [refreshRet EXCEPT ![t] = "nil"]
  /\ pc' = [pc EXCEPT ![t] = "r_done"]
  /\ CountCycle(t)
  /\ UNCHANGED <<parse, listURLs, domains, etags, muReaders, now, ctxDone,
                 tickPending, idx, lastErr, req, fetched, snap, hist, startRet,
                 everLoaded, readers>>

\* A variant of NotModifiedCheck that goes on to the next URL even when the
\* cache is ready
NotModifiedCheck_TriesNext(t) ==
  /\ pc[t] = "nm_cs"
  /\ muWriter' = "none"
  /\ lastRefresh' = IF isReady THEN now ELSE lastRefresh
  /\ idx' = [idx EXCEPT ![t] = @ + 1]
  /\ pc' = [pc EXCEPT ![t] = "iter"]
  /\ UNCHANGED <<parse, listURLs, domains, isReady, etags, muReaders, now, ctxDone,
                 tickPending, lastErr, req, fetched, refreshRet, snap, hist,
                 startRet, ghost, readers>>

\* A variant of NotModifiedCheck that leaves the timestamp alone
NotModifiedCheck_KeepsTimestamp(t) ==
  /\ pc[t] = "nm_cs"
  /\ muWriter' = "none"
  /\ IF isReady
       THEN /\ refreshRet' = [refreshRet EXCEPT ![t] = "nil"]
            /\ pc' = [pc EXCEPT ![t] = "r_done"]
            /\ CountCycle(t)
            /\ UNCHANGED idx
       ELSE /\ idx' = [idx EXCEPT ![t] = @ + 1]
            /\ pc' = [pc EXCEPT ![t] = "iter"]
            /\ UNCHANGED <<refreshRet, startCycles>>
  /\ UNCHANGED <<parse, svc, muReaders, now, ctxDone, tickPending, lastErr, req,
                 fetched, snap, hist, startRet, everLoaded, readers>>

\* if s.isReady: update lastRefresh, unlock, return nil;
\* otherwise unlock and continue with the next URL.
NotModifiedCheck(t) ==
  /\ pc[t] = "nm_cs"
  /\ muWriter' = "none"
  /\ IF isReady
       THEN /\ lastRefresh' = now
            /\ refreshRet' = [refreshRet EXCEPT ![t] = "nil"]
            /\ pc' = [pc EXCEPT ![t] = "r_done"]
            /\ CountCycle(t)
            /\ UNCHANGED idx
       ELSE /\ idx' = [idx EXCEPT ![t] = @ + 1]
            /\ pc' = [pc EXCEPT ![t] = "iter"]
            /\ UNCHANGED <<lastRefresh, refreshRet, startCycles>>
  /\ UNCHANGED <<parse, listURLs, domains, isReady, etags, muReaders, now, ctxDone,
                 tickPending, lastErr, req, fetched, snap, hist, startRet,
                 everLoaded, readers>>

\* A variant of SwapLock that enters the swap without taking the lock
SwapLock_NoLock(t) ==
  /\ pc[t] = "sw_lock"
  /\ pc' = [pc EXCEPT ![t] = "sw_domains"]
  /\ UNCHANGED <<parse, svc, mu, now, ctxDone, tickPending, locals, startRet, ghost,
                 readers>>

\* SUCCESS: s.mu.Lock()
SwapLock(t) ==
  /\ pc[t] = "sw_lock"
  /\ muWriter = "none"
  /\ muReaders = {}
  /\ muWriter' = t
  /\ pc' = [pc EXCEPT ![t] = "sw_domains"]
  /\ UNCHANGED <<parse, svc, muReaders, now, ctxDone, tickPending, locals, startRet, ghost,
                 readers>>

\* s.domains = domains
SwapDomains(t) ==
  /\ pc[t] = "sw_domains"
  /\ domains' = fetched[t].domains
  /\ pc' = [pc EXCEPT ![t] = "sw_last"]
  /\ UNCHANGED <<parse, listURLs, lastRefresh, isReady, etags, mu, now, ctxDone,
                 tickPending, locals, startRet, ghost, readers>>

\* s.lastRefresh = time.Now()
SwapLastRefresh(t) ==
  /\ pc[t] = "sw_last"
  /\ lastRefresh' = now
  /\ pc' = [pc EXCEPT ![t] = "sw_ready"]
  /\ UNCHANGED <<parse, listURLs, domains, isReady, etags, mu, now, ctxDone,
                 tickPending, locals, startRet, ghost, readers>>

\* s.isReady = true
SwapReady(t) ==
  /\ pc[t] = "sw_ready"
  /\ isReady' = TRUE
  /\ pc' = [pc EXCEPT ![t] = "sw_etag"]
  /\ UNCHANGED <<parse, listURLs, domains, lastRefresh, etags, mu, now, ctxDone,
                 tickPending, locals, startRet, ghost, readers>>

\* A variant of SwapETagUnlock that stores the token under the first
\* configured URL instead of the URL that was fetched
SwapETagUnlock_FirstURL(t) ==
  /\ pc[t] = "sw_etag"
  /\ etags' = IF fetched[t].newETag # ""
                THEN [etags EXCEPT ![listURLs[1]] = fetched[t].newETag]
                ELSE etags
  /\ muWriter' = "none"
  /\ fetched' = [fetched EXCEPT ![t] = NoFetched]
  /\ pc' = [pc EXCEPT ![t] = "sw_log"]
  /\ everLoaded' = TRUE
  /\ UNCHANGED <<parse, listURLs, domains, lastRefresh, isReady, muReaders, now,
                 ctxDone, tickPending, idx, lastErr, req, refreshRet, snap,
                 hist, startRet, startCycles, readers>>

\* A variant of SwapETagUnlock that stores whatever the response carried,
\* an absent token included
SwapETagUnlock_AlwaysStores(t) ==
  /\ pc[t] = "sw_etag"
  /\ etags' = [etags EXCEPT ![listURLs[idx[t]]] = fetched[t].newETag]
  /\ muWriter' = "none"
  /\ fetched' = [fetched EXCEPT ![t] = NoFetched]
  /\ pc' = [pc EXCEPT ![t] = "sw_log"]
  /\ everLoaded' = TRUE
  /\ UNCHANGED <<parse, listURLs, domains, lastRefresh, isReady, muReaders, now,
                 ctxDone, tickPending, idx, lastErr, req, refreshRet, snap,
                 hist, startRet, startCycles, readers>>

\* if newETag != "" { s.etags[url] = newETag }; s.mu.Unlock()
SwapETagUnlock(t) ==
  /\ pc[t] = "sw_etag"
  /\ etags' = IF fetched[t].newETag # ""
                THEN [etags EXCEPT ![listURLs[idx[t]]] = fetched[t].newETag]
                ELSE etags
  /\ muWriter' = "none"
  /\ fetched' = [fetched EXCEPT ![t] = NoFetched]
  /\ pc' = [pc EXCEPT ![t] = "sw_log"]
  /\ everLoaded' = TRUE
  /\ UNCHANGED <<parse, listURLs, domains, lastRefresh, isReady, muReaders, now,
                 ctxDone, tickPending, idx, lastErr, req, refreshRet, snap,
                 hist, startRet, startCycles, readers>>

\* The log line of a successful refresh, which reads s.lastRefresh after
\* the Unlock, holding no lock; then return nil.
SwapLog(t) ==
  /\ pc[t] = "sw_log"
  /\ refreshRet' = [refreshRet EXCEPT ![t] = "nil"]
  /\ pc' = [pc EXCEPT ![t] = "r_done"]
  /\ CountCycle(t)
  /\ UNCHANGED <<parse, svc, mu, now, ctxDone, tickPending, idx, lastErr, req,
                 fetched, snap, hist, startRet, everLoaded, readers>>

\* All URLs failed: handleAllRefreshFailures(lastErr) takes s.mu.RLock()
AllFailedRLock(t) ==
  /\ pc[t] = "iter"
  /\ idx[t] > Len(listURLs)
  /\ muWriter = "none"
  /\ muReaders' = muReaders \cup {t}
  /\ pc' = [pc EXCEPT ![t] = "af_read"]
  /\ UNCHANGED <<parse, svc, muWriter, now, ctxDone, tickPending, locals, startRet,
                 ghost, readers>>

\* A variant of AllFailed that gives up readiness when every source failed
AllFailed_ClearsReady(t) ==
  /\ pc[t] = "af_read"
  /\ muReaders' = muReaders \ {t}
  /\ isReady' = FALSE
  /\ refreshRet' = [refreshRet EXCEPT ![t] = "err"]
  /\ pc' = [pc EXCEPT ![t] = "r_done"]
  /\ CountCycle(t)
  /\ UNCHANGED <<parse, listURLs, domains, lastRefresh, etags, muWriter, now,
                 ctxDone, tickPending, idx, lastErr, req, fetched, snap, hist,
                 startRet, everLoaded, readers>>

\* A variant of AllFailed that discards the old data when every source failed
AllFailed_DropsData(t) ==
  /\ pc[t] = "af_read"
  /\ muReaders' = muReaders \ {t}
  /\ domains' = {}
  /\ refreshRet' = [refreshRet EXCEPT ![t] = "err"]
  /\ pc' = [pc EXCEPT ![t] = "r_done"]
  /\ CountCycle(t)
  /\ UNCHANGED <<parse, listURLs, lastRefresh, isReady, etags, muWriter, now,
                 ctxDone, tickPending, idx, lastErr, req, fetched, snap, hist,
                 startRet, everLoaded, readers>>

\* handleAllRefreshFailures copies isReady, len(domains) and lastRefresh
\* under the shared lock, releases it and only logs; refresh returns the
\* aggregate error, which wraps lastErr.
AllFailed(t) ==
  /\ pc[t] = "af_read"
  /\ muReaders' = muReaders \ {t}
  /\ refreshRet' = [refreshRet EXCEPT ![t] = "err"]
  /\ pc' = [pc EXCEPT ![t] = "r_done"]
  /\ CountCycle(t)
  /\ UNCHANGED <<parse, svc, muWriter, now, ctxDone, tickPending, idx, lastErr, req,
                 fetched, snap, hist, startRet, everLoaded, readers>>

Refresh(t) ==
  \/ FetchRLock(t)
  \/ FetchReadETag(t)
  \/ HttpDo(t)
  \/ NotModifiedLock(t)
  \/ NotModifiedCheck(t)
  \/ SwapLock(t)
  \/ SwapDomains(t)
  \/ SwapLastRefresh(t)
  \/ SwapReady(t)
  \/ SwapETagUnlock(t)
  \/ SwapLog(t)
  \/ AllFailedRLock(t)
  \/ AllFailed(t)

(* ---------------------------------------------------------------------- *)
(* Start, autoRefresh and the cancellation of the context                  *)
(* ---------------------------------------------------------------------- *)

\* A variant of StartCall that starts the goroutine before the initial load
StartCall_LoopFirst ==
  /\ pc["main"] = "start"
  /\ pc' = [pc EXCEPT !["main"] = "iter", !["loop"] = "select"]
  /\ RefreshEnter("main")
  /\ UNCHANGED <<parse, svc, mu, now, ctxDone, tickPending, startRet, ghost, readers>>

\* Start: the initial load, s.refresh(), begins
StartCall ==
  /\ pc["main"] = "start"
  /\ pc' = [pc EXCEPT !["main"] = "iter"]
  /\ RefreshEnter("main")
  /\ UNCHANGED <<parse, svc, mu, now, ctxDone, tickPending, startRet, ghost, readers>>

\* A variant of StartReturn that hands the error of the initial load to
\* its caller and starts no goroutine then
StartReturn_ReturnsErr ==
  /\ pc["main"] = "r_done"
  /\ pc["loop"] = "off"
  /\ IF refreshRet["main"] = "err"
       THEN /\ pc' = [pc EXCEPT !["main"] = "returned"]
            /\ startRet' = "err"
       ELSE /\ pc' = [pc EXCEPT !["main"] = "returned", !["loop"] = "select"]
            /\ startRet' = "nil"
  /\ RefreshLeave("main")
  /\ UNCHANGED <<parse, svc, mu, now, ctxDone, tickPending, ghost, readers>>

\* A variant of StartReturn that returns nil but starts the goroutine only
\* when the initial load succeeded
StartReturn_NoLoopWhenDegraded ==
  /\ pc["main"] = "r_done"
  /\ pc["loop"] = "off"
  /\ pc' = [pc EXCEPT !["main"] = "returned",
                      !["loop"] = IF refreshRet["main"] = "err" THEN "off"
                                  ELSE "select"]
  /\ startRet' = "nil"
  /\ RefreshLeave("main")
  /\ UNCHANGED <<parse, svc, mu, now, ctxDone, tickPending, ghost, readers>>

\* Start after refresh returned: on both branches go s.autoRefresh(ctx),
\* which creates its ticker, and return nil.
StartReturn ==
  /\ pc["main"] = "r_done"
  /\ pc["loop"] = "off"
  /\ pc' = [pc EXCEPT !["main"] = "returned", !["loop"] = "select"]
  /\ startRet' = "nil"
  /\ RefreshLeave("main")
  /\ UNCHANGED <<parse, svc, mu, now, ctxDone, tickPending, ghost, readers>>

\* The ticker delivers a tick while the loop is busy in refresh (the
\* refresh took longer than the interval); ticker.C holds at most one, and
\* the tick waits there until the loop is back at its select.
Tick ==
  /\ pc["loop"] = "r_done"
  /\ ~tickPending
  /\ tickPending' = TRUE
  /\ UNCHANGED <<parse, svc, mu, now, ctxDone, pc, locals, startRet, ghost, readers>>

\* autoRefresh: case <-ticker.C: s.refresh() begins.  Either a tick waits
\* in ticker.C, and select may choose it even when ctx.Done() is ready as
\* well (select chooses at random among the ready cases), or the loop is
\* blocked in select and the next tick arrives before any cancellation.
LoopTick ==
  /\ pc["loop"] = "select"
  /\ tickPending \/ ~ctxDone
  /\ tickPending' = FALSE
  /\ pc' = [pc EXCEPT !["loop"] = "iter"]
  /\ RefreshEnter("loop")
  /\ UNCHANGED <<parse, svc, mu, now, ctxDone, startRet, ghost, readers>>

\* A variant of LoopReturn that ends the goroutine when refresh failed
LoopReturn_StopsOnError ==
  /\ pc["loop"] = "r_done"
  /\ pc' = [pc EXCEPT !["loop"] =
               IF refreshRet["loop"] = "err" THEN "stopped" ELSE "select"]
  /\ RefreshLeave("loop")
  /\ UNCHANGED <<parse, svc, mu, now, ctxDone, tickPending, startRet, ghost, readers>>

\* autoRefresh: refresh returned (an error is only logged); back to select
LoopReturn ==
  /\ pc["loop"] = "r_done"
  /\ pc' = [pc EXCEPT !["loop"] = "select"]
  /\ RefreshLeave("loop")
  /\ UNCHANGED <<parse, svc, mu, now, ctxDone, tickPending, startRet, ghost, readers>>

\* autoRefresh: case <-ctx.Done(): return (the deferred ticker.Stop runs)
LoopStop ==
  /\ pc["loop"] = "select"
  /\ ctxDone
  /\ pc' = [pc EXCEPT !["loop"] = "stopped"]
  /\ tickPending' = FALSE
  /\ UNCHANGED <<parse, svc, mu, now, ctxDone, locals, startRet, ghost, readers>>

\* main: cancel() of the context created before Start
Cancel ==
  /\ ~ctxDone
  /\ ctxDone' = TRUE
  /\ UNCHANGED <<parse, svc, mu, now, tickPending, pc, locals, startRet, ghost, readers>>

\* main after Start: a non-nil error would end the process (os.Exit(1));
\* otherwise the handlers are created and the server is started.
MainAfterStart ==
  /\ pc["main"] = "returned"
  /\ pc' = [pc EXCEPT !["main"] = IF startRet = "nil" THEN "serving" ELSE "exited"]
  /\ UNCHANGED <<parse, svc, mu, now, ctxDone, tickPending, locals, startRet, ghost, readers>>

(* ---------------------------------------------------------------------- *)
(* The HTTP handlers in front of the service                               *)
(* ---------------------------------------------------------------------- *)

\* respondError(w, statusCode, message): one message whose id is the status
\* code, pointing at the whole payload.
respondError(statusCode, message) ==
  [status |-> statusCode, id |-> statusCode, text |-> message, ptr |-> "#/",
   email |-> <<>>, domain |-> <<>>]

\* domain.NewErrorResponse(email, emailDomain), written with status 400
NewErrorResponse(email, emailDomain) ==
  [status |-> StatusBadRequest, id |-> DisposableMessageID,
   text |-> "Disposable email addresses are not allowed",
   ptr |-> "#/traits/email", email |-> email, domain |-> emailDomain]

\* A variant of ValidateRespond without the rejection branch: whatever the
\* service answers without an error lets the email pass.
ValidateRespond_NeverRejects(email, ret) ==
  IF email = <<>> THEN NoResp
  ELSE IF ret.err # "nil"
    THEN respondError(StatusBadRequest, "Invalid email format")
  ELSE [NoResp EXCEPT !.status = StatusOK]

\* ValidateHandler.Handle after s.IsDisposable(req.Email) has returned ret:
\* an error is a 400 "Invalid email format", a disposable domain is the 400
\* of NewErrorResponse, anything else is an empty 200.  The handler never
\* passes an empty email to the service (it rejects it itself), so a call
\* with the empty email is a direct call and writes no response.
ValidateRespond(email, ret) ==
  IF email = <<>> THEN NoResp
  ELSE IF ret.err # "nil"
    THEN respondError(StatusBadRequest, "Invalid email format")
  ELSE IF ret.val
    THEN NewErrorResponse(email, ret.domain)
  ELSE [NoResp EXCEPT !.status = StatusOK]

\* The requests ValidateHandler.Handle answers before it calls the service
ValidateRejections ==
  { respondError(StatusMethodNotAllowed, "Method not allowed"),
    respondError(StatusBadRequest, "Invalid request body"),
    respondError(StatusBadRequest, "Email is required") }

\* A variant of HealthRespond that reports "pass" whatever the flag is
HealthRespond_AlwaysPass(ready) ==
  [NoResp EXCEPT !.status = StatusOK, !.text = "pass"]

\* HealthHandler.Handle after IsReady() has returned ready
HealthRespond(ready) ==
  [NoResp EXCEPT !.status = IF ready THEN StatusOK ELSE StatusServiceUnavailable,
                 !.text = IF ready THEN "pass" ELSE "fail"]

\* ValidateHandler.Handle on a request that is not a POST, has no JSON body
\* or has no email: answered without a call of the service.
ValidateReject(r) ==
  /\ rpc[r] = "idle"
  /\ \E resp \in ValidateRejections :
       rresp' = [rresp EXCEPT ![r] = resp]
  /\ rpc' = [rpc EXCEPT ![r] = "returned"]
  /\ UNCHANGED <<parse, svc, mu, now, ctxDone, tickPending, pc, locals, startRet, ghost,
                 remail, rdomain, rready, rret, readyObserved>>

(* ---------------------------------------------------------------------- *)
(* IsDisposable and IsReady, called by reader r                            *)
(* ---------------------------------------------------------------------- *)

\* IsDisposable(email): extractDomain; an empty domain returns
\* (false, "", ErrInvalidEmail) before any state is read.
IsDisposableCall(r) ==
  /\ rpc[r] = "idle"
  /\ \E email \in Emails :
       LET emailDomain == extractDomain(email)
           ret == [op |-> "IsDisposable", val |-> FALSE,
                   domain |-> <<>>, err |-> "ErrInvalidEmail"]
       IN  /\ remail' = [remail EXCEPT ![r] = email]
           /\ rdomain' = [rdomain EXCEPT ![r] = emailDomain]
           /\ IF emailDomain = <<>>
                THEN /\ rret' = [rret EXCEPT ![r] = ret]
                     /\ rresp' = [rresp EXCEPT ![r] = ValidateRespond(email, ret)]
                     /\ rpc' = [rpc EXCEPT ![r] = "returned"]
                ELSE /\ rpc' = [rpc EXCEPT ![r] = "d_rlock1"]
                     /\ UNCHANGED <<rret, rresp>>
  /\ UNCHANGED <<parse, svc, mu, now, ctxDone, tickPending, pc, locals, startRet, ghost,
                 rready, readyObserved>>

\* s.mu.RLock() before ready := s.isReady
IsDisposableRLock1(r) ==
  /\ rpc[r] = "d_rlock1"
  /\ muWriter = "none"
  /\ muReaders' = muReaders \cup {r}
  /\ rpc' = [rpc EXCEPT ![r] = "d_ready"]
  /\ UNCHANGED <<parse, svc, muWriter, now, ctxDone, tickPending, pc, locals,
                 startRet, ghost, remail, rdomain, rready, rret, readyObserved,
                 rresp>>

\* A variant of IsDisposableReadReady that fails closed: while the cache is
\* not ready it reports every domain as disposable.
IsDisposableReadReady_FailClosed(r) ==
  /\ rpc[r] = "d_ready"
  /\ rready' = [rready EXCEPT ![r] = isReady]
  /\ muReaders' = muReaders \ {r}
  /\ IF ~isReady
       THEN LET ret == [op |-> "IsDisposable", val |-> TRUE,
                        domain |-> rdomain[r], err |-> "nil"]
            IN  /\ rret' = [rret EXCEPT ![r] = ret]
                /\ rresp' = [rresp EXCEPT ![r] = ValidateRespond(remail[r], ret)]
                /\ rpc' = [rpc EXCEPT ![r] = "returned"]
       ELSE /\ rpc' = [rpc EXCEPT ![r] = "d_rlock2"]
            /\ UNCHANGED <<rret, rresp>>
  /\ UNCHANGED <<parse, svc, muWriter, now, ctxDone, tickPending, pc, locals,
                 startRet, ghost, remail, rdomain, readyObserved>>

\* ready := s.isReady; s.mu.RUnlock(); if !ready return (false, domain, nil)
IsDisposableReadReady(r) ==
  /\ rpc[r] = "d_ready"
  /\ rready' = [rready EXCEPT ![r] = isReady]
  /\ muReaders' = muReaders \ {r}
  /\ IF ~isReady
       THEN LET ret == [op |-> "IsDisposable", val |-> FALSE,
                        domain |-> rdomain[r], err |-> "nil"]
            IN  /\ rret' = [rret EXCEPT ![r] = ret]
                /\ rresp' = [rresp EXCEPT ![r] = ValidateRespond(remail[r], ret)]
                /\ rpc' = [rpc EXCEPT ![r] = "returned"]
       ELSE /\ rpc' = [rpc EXCEPT ![r] = "d_rlock2"]
            /\ UNCHANGED <<rret, rresp>>
  /\ UNCHANGED <<parse, svc, muWriter, now, ctxDone, tickPending, pc, locals,
                 startRet, ghost, remail, rdomain, readyObserved>>

\* s.mu.RLock() before isDisposable := s.domains[emailDomain]
IsDisposableRLock2(r) ==
  /\ rpc[r] = "d_rlock2"
  /\ muWriter = "none"
  /\ muReaders' = muReaders \cup {r}
  /\ rpc' = [rpc EXCEPT ![r] = "d_lookup"]
  /\ UNCHANGED <<parse, svc, muWriter, now, ctxDone, tickPending, pc, locals,
                 startRet, ghost, remail, rdomain, rready, rret, readyObserved,
                 rresp>>

\* isDisposable := s.domains[emailDomain]; s.mu.RUnlock();
\* return (isDisposable, emailDomain, nil)
IsDisposableLookup(r) ==
  /\ rpc[r] = "d_lookup"
  /\ muReaders' = muReaders \ {r}
  /\ LET ret == [op |-> "IsDisposable", val |-> rdomain[r] \in domains,
                 domain |-> rdomain[r], err |-> "nil"]
     IN  /\ rret' = [rret EXCEPT ![r] = ret]
         /\ rresp' = [rresp EXCEPT ![r] = ValidateRespond(remail[r], ret)]
  /\ rpc' = [rpc EXCEPT ![r] = "returned"]
  /\ UNCHANGED <<parse, svc, muWriter, now, ctxDone, tickPending, pc, locals,
                 startRet, ghost, remail, rdomain, rready, readyObserved>>

\* IsReady(): s.mu.RLock()
IsReadyRLock(r) ==
  /\ rpc[r] = "idle"
  /\ muWriter = "none"
  /\ muReaders' = muReaders \cup {r}
  /\ rpc' = [rpc EXCEPT ![r] = "q_ready"]
  /\ UNCHANGED <<parse, svc, muWriter, now, ctxDone, tickPending, pc, locals,
                 startRet, ghost, remail, rdomain, rready, rret, readyObserved,
                 rresp>>

\* return s.isReady, and the deferred s.mu.RUnlock()
IsReadyReturn(r) ==
  /\ rpc[r] = "q_ready"
  /\ muReaders' = muReaders \ {r}
  /\ rret' = [rret EXCEPT ![r] =
                [op |-> "IsReady", val |-> isReady, domain |-> <<>>,
                 err |-> "nil"]]
  /\ rresp' = [rresp EXCEPT ![r] = HealthRespond(isReady)]
  /\ readyObserved' = (readyObserved \/ isReady)
  /\ rpc' = [rpc EXCEPT ![r] = "returned"]
  /\ UNCHANGED <<parse, svc, muWriter, now, ctxDone, tickPending, pc, locals,
                 startRet, ghost, remail, rdomain, rready>>

\* The caller has used the result; the reader is free for its next call.
ReaderDone(r) ==
  /\ rpc[r] = "returned"
  /\ rpc' = [rpc EXCEPT ![r] = "idle"]
  /\ remail' = [remail EXCEPT ![r] = <<>>]
  /\ rdomain' = [rdomain EXCEPT ![r] = <<>>]
  /\ rready' = [rready EXCEPT ![r] = FALSE]
  /\ rret' = [rret EXCEPT ![r] = NoRet]
  /\ rresp' = [rresp EXCEPT ![r] = NoResp]
  /\ UNCHANGED <<parse, svc, mu, now, ctxDone, tickPending, pc, locals, startRet, ghost,
                 readyObserved>>

Reader(r) ==
  \/ ValidateReject(r)
  \/ IsDisposableCall(r)
  \/ IsDisposableRLock1(r)
  \/ IsDisposableReadReady(r)
  \/ IsDisposableRLock2(r)
  \/ IsDisposableLookup(r)
  \/ IsReadyRLock(r)
  \/ IsReadyReturn(r)
  \/ ReaderDone(r)

(* ---------------------------------------------------------------------- *)
(* Specification                                                           *)
(* ---------------------------------------------------------------------- *)

Next ==
  \/ StartCall
  \/ StartReturn
  \/ MainAfterStart
  \/ Tick
  \/ LoopTick
  \/ LoopReturn
  \/ LoopStop
  \/ Cancel
  \/ \E t \in Threads : Refresh(t)
  \/ \E r \in Readers : Reader(r)

Spec == Init /\ [][Next]_vars

(* ---------------------------------------------------------------------- *)
(* The service in front of two origins with fixed content                  *)
(* ---------------------------------------------------------------------- *)

\* Each source serves one list under one token: A serves "A\n" as e1, B
\* serves "b" as e2.
ContentOf(u) == IF u = "A" THEN BodyA ELSE BodyB
TokenOf(u)   == IF u = "A" THEN "e1" ELSE "e2"

\* What the origin of u can answer to a request that carries inm as
\* If-None-Match: a transport error, a 500, its list with its token, and
\* 304 when inm is its token.
SourceResponses(u, inm) ==
  {[status |-> c, body |-> BodyNone, etag |-> "", ioerr |-> FALSE] :
      c \in {0, StatusServerError} \cup
            (IF inm = TokenOf(u) THEN {StatusNotModified} ELSE {})}
  \cup
  {[status |-> StatusOK, body |-> ContentOf(u), etag |-> TokenOf(u),
    ioerr |-> FALSE]}

\* httpClient.Do answers the request of thread t, as the origin of its URL
\* can.  The clock is not advanced here: the number of cycles is not
\* bounded, and lastRefresh stays at its initial value.
HttpDoSource(t) ==
  /\ pc[t] = "http"
  /\ \E resp \in SourceResponses(req[t].url, req[t].ifNoneMatch) :
       Received(t, resp)
  /\ UNCHANGED <<parse, svc, mu, now, ctxDone, tickPending, refreshRet, snap,
                 startRet, ghost, readers>>

RefreshSource(t) ==
  \/ FetchRLock(t)
  \/ FetchReadETag(t)
  \/ HttpDoSource(t)
  \/ NotModifiedLock(t)
  \/ NotModifiedCheck(t)
  \/ SwapLock(t)
  \/ SwapDomains(t)
  \/ SwapLastRefresh(t)
  \/ SwapReady(t)
  \/ SwapETagUnlock(t)
  \/ SwapLog(t)
  \/ AllFailedRLock(t)
  \/ AllFailed(t)

\* The context is never cancelled.
NextSources ==
  \/ StartCall
  \/ StartReturn
  \/ MainAfterStart
  \/ Tick
  \/ LoopTick
  \/ LoopReturn
  \/ \E t \in Threads : RefreshSource(t)
  \/ \E r \in Readers : Reader(r)

\* The goroutine that runs refresh keeps running: Start and its initial
\* refresh, then the loop, whose ticker keeps firing; a request ends (it
\* has a timeout of 30 seconds).
RefresherRuns ==
  \/ StartCall
  \/ StartReturn
  \/ LoopTick
  \/ LoopReturn
  \/ \E t \in Threads : RefreshSource(t)

\* sync.RWMutex: a blocked Lock() keeps new readers out, so the writer gets
\* the lock once the readers that hold it have released it.
WriterGetsLock == \E t \in Threads : NotModifiedLock(t) \/ SwapLock(t)

\* A reader that holds the shared lock reads and releases it.
ReaderReleases ==
  \E r \in Readers :
    IsDisposableReadReady(r) \/ IsDisposableLookup(r) \/ IsReadyReturn(r)

SpecSources ==
  /\ Init
  /\ [][NextSources]_vars
  /\ WF_vars(RefresherRuns)
  /\ SF_vars(WriterGetsLock)
  /\ WF_vars(ReaderReleases)

(* ---------------------------------------------------------------------- *)
(* parseTxtFile on its own                                                 *)
(* ---------------------------------------------------------------------- *)

\* The bodies handed to parseTxtFile: every string of at most MaxBodyLen
\* characters over letters of both cases, '#', blank, line feed and
\* carriage return, the bodies the sources serve, and the body
\* "# a\n\nB\n  aB  \n".
ParseAlphabet == {"a", "B", "#", " ", "\n", "\r"}

ExampleBody ==
  <<"#", " ", "a", "\n", "\n", "B", "\n", " ", " ", "a", "B", " ", " ", "\n">>

ParseBodies ==
  UNION {[1..n -> ParseAlphabet] : n \in 0..MaxBodyLen}
    \cup Bodies \cup {ExampleBody}

InitParse ==
  /\ InitService
  /\ listURLs = <<"A">>
  /\ parseIn \in [body : ParseBodies, ioerr : BOOLEAN]
  /\ parseOut = NoParse

\* s.parseTxtFile(resp.Body)
ParseBody ==
  /\ parseOut = NoParse
  /\ parseOut' = parseTxtFile(parseIn.body, parseIn.ioerr)
  /\ UNCHANGED <<svc, mu, now, ctxDone, tickPending, pc, locals, startRet,
                 ghost, readers, parseIn>>

NextParse == ParseBody

SpecParse == InitParse /\ [][NextParse]_vars

(* ---------------------------------------------------------------------- *)
(* Vocabulary of the properties                                            *)
(* ---------------------------------------------------------------------- *)

\* Reader r returns from a call of op in this step.
Returns(r, op) ==
  /\ rpc[r] # "returned"
  /\ rpc'[r] = "returned"
  /\ rret'[r].op = op

\* Thread t stands at the return of a refresh cycle.
CycleEnded(t) == pc[t] = "r_done"

\* The email after trimming and lowercasing, and the positions of its '@'
Normalized(email) == TrimSpace(ToLower(email))
AtSigns(s) == {k \in 1..Len(s) : s[k] = "@"}

\* Exactly one '@' and something after it
WellFormed(email) ==
  LET n == Normalized(email)
  IN  /\ Cardinality(AtSigns(n)) = 1
      /\ n[Len(n)] # "@"

\* The part of a well-formed email after its '@'
DomainOf(email) ==
  LET n == Normalized(email)
      k == CHOOSE j \in AtSigns(n) : TRUE
  IN  SubSeq(n, k + 1, Len(n))

(* ---------------------------------------------------------------------- *)
(* Properties                                                              *)
(* ---------------------------------------------------------------------- *)

\* C1: readiness is monotonic.  No step resets the readiness flag, and once
\* an IsReady call has returned true every later IsReady call returns true,
\* whatever the refresh cycles in between did.
ReadinessMonotonic ==
  [][ /\ isReady => isReady'
      /\ \A r \in Readers :
           (readyObserved /\ Returns(r, "IsReady")) => rret'[r].val = TRUE
    ]_vars

\* C1 witness: IsReady returned true, then a cycle failed on every source,
\* and an IsReady call after that cycle returned true again.
ReadyAfterFailedCycle ==
  /\ readyObserved
  /\ isReady
  /\ \E t \in Threads : CycleEnded(t) /\ refreshRet[t] = "err"
  /\ \E r \in Readers : /\ rpc[r] = "returned"
                        /\ rret[r].op = "IsReady"
                        /\ rret[r].val = TRUE

\* What IsDisposable returns for a verdict on a well-formed email
Verdict(email, disposable) ==
  [op |-> "IsDisposable", val |-> disposable, domain |-> DomainOf(email),
   err |-> "nil"]

\* C2: fail-open.  As long as no refresh cycle has ended in a successful
\* load, every IsReady call returns false and every IsDisposable call on a
\* well-formed email returns (false, its domain, nil).
FailOpen ==
  [][ ~everLoaded =>
        \A r \in Readers :
          /\ Returns(r, "IsReady") => rret'[r].val = FALSE
          /\ (Returns(r, "IsDisposable") /\ WellFormed(remail'[r]))
               => rret'[r] = Verdict(remail'[r], FALSE)
    ]_vars

\* C2 witness: Start has returned after a failed initial cycle, nothing
\* has been loaded since, and a lookup of " X@B\n" returned (false, "b", nil).
FailOpenAfterFailedStart ==
  /\ startRet = "nil"
  /\ startCycles = 1
  /\ ~everLoaded
  /\ \E r \in Readers : /\ rpc[r] = "returned"
                        /\ remail[r] = <<" ", "X", "@", "B", "\n">>
                        /\ rret[r] = [op |-> "IsDisposable", val |-> FALSE,
                                      domain |-> <<"b">>, err |-> "nil"]

\* Thread t stands at the return of a cycle that ended without a load.
CycleFailed(t) == CycleEnded(t) /\ refreshRet[t] = "err"

\* C3: fail-retain.  At the end of a cycle in which every source failed the
\* DomainSet, the readiness flag, the validator tokens and the last-refresh
\* timestamp are what they were when the cycle began; a lookup that returns
\* then, for a domain of the set loaded before, returns (true, domain, nil).
FailRetain ==
  /\ [](\A t \in Threads : CycleFailed(t) => CacheState = snap[t])
  /\ [][ \A t \in Threads, r \in Readers :
           ( /\ CycleFailed(t)
             /\ snap[t].isReady
             /\ Returns(r, "IsDisposable")
             /\ WellFormed(remail'[r])
             /\ DomainOf(remail'[r]) \in snap[t].domains )
           => rret'[r] = Verdict(remail'[r], TRUE)
       ]_vars

\* C3 witness: {a} was loaded with a token, a later cycle failed on every
\* source, and a lookup of "x@a" returned (true, "a", nil).
StaleDataServed ==
  \E t \in Threads, r \in Readers :
    /\ CycleFailed(t)
    /\ \A k \in 1..Len(hist[t]) : hist[t][k].out = "failure"
    /\ snap[t].isReady
    /\ snap[t].domains = {<<"a">>}
    /\ snap[t].etags["A"] = "e1"
    /\ rpc[r] = "returned"
    /\ remail[r] = <<"x", "@", "a">>
    /\ rret[r] = [op |-> "IsDisposable", val |-> TRUE, domain |-> <<"a">>,
                  err |-> "nil"]

\* C4: once the cache is ready, a lookup of a well-formed email returns
\* (true, D, nil) when its trimmed, lowercased domain part D is a key of the
\* current DomainSet and (false, D, nil) when it is not.
LookupIsMembership ==
  [][ \A r \in Readers :
        (isReady /\ Returns(r, "IsDisposable") /\ WellFormed(remail'[r]))
        => rret'[r] = Verdict(remail'[r], DomainOf(remail'[r]) \in domains)
    ]_vars

\* C4 witness: with {b} loaded, the lookup of " X@B\n" returned
\* (true, "b", nil).
NormalizedDomainFound ==
  \E r \in Readers :
    /\ isReady
    /\ domains = {<<"b">>}
    /\ rpc[r] = "returned"
    /\ remail[r] = <<" ", "X", "@", "B", "\n">>
    /\ rret[r] = [op |-> "IsDisposable", val |-> TRUE, domain |-> <<"b">>,
                  err |-> "nil"]

\* C5: IsDisposable returns an error exactly for the emails that, trimmed
\* and lowercased, do not have exactly one '@' followed by something; the
\* error is ErrInvalidEmail, in every state of the cache.
ErrorIffMalformed ==
  \A r \in Readers :
    (rpc[r] = "returned" /\ rret[r].op = "IsDisposable")
    => /\ (rret[r].err # "nil") <=> ~WellFormed(remail[r])
       /\ rret[r].err \in {"nil", "ErrInvalidEmail"}

\* C5 witness: with data loaded and a later cycle failed on every source,
\* the lookup of "x@a@b" returned ErrInvalidEmail.
MalformedRejectedWhenReady ==
  \E t \in Threads, r \in Readers :
    /\ CycleFailed(t)
    /\ isReady
    /\ rpc[r] = "returned"
    /\ remail[r] = <<"x", "@", "a", "@", "b">>
    /\ rret[r] = [op |-> "IsDisposable", val |-> FALSE, domain |-> <<>>,
                  err |-> "ErrInvalidEmail"]

\* The positions of refresh between the first and the last assignment of
\* a swap
SwapSection == {"sw_domains", "sw_last", "sw_ready", "sw_etag"}

\* C6: the DomainSet is replaced atomically.  While a reader holds the
\* shared lock no swap is in progress and the flag and the set agree (ready
\* exactly when the set is not the initial empty one); a lookup that saw the
\* flag true never finds the empty set; and every verdict is membership in
\* the whole set that is current at the instant of the read.
AtomicReplace ==
  /\ [](\A r \in Readers :
          /\ r \in muReaders =>
               /\ \A t \in Threads : pc[t] \notin SwapSection
               /\ isReady <=> domains # {}
          /\ rpc[r] \in {"d_rlock2", "d_lookup"} => domains # {})
  /\ [][ \A r \in Readers :
           (Returns(r, "IsDisposable") /\ rret'[r].err = "nil")
           => /\ rret'[r].val = (rret'[r].domain \in domains)
              /\ \A t \in Threads : pc[t] \notin SwapSection
       ]_vars

\* C6 witness: a lookup has read the flag and waits for its second read
\* while a refresh, holding the lock, has replaced the old set and not yet
\* finished the swap.
LookupDuringSwap ==
  \E t \in Threads, r \in Readers :
    /\ pc[t] = "sw_last"
    /\ muWriter = t
    /\ snap[t].isReady
    /\ domains # snap[t].domains
    /\ rpc[r] = "d_rlock2"

\* The outcome of the last source tried in the cycle of thread t
LastOutcome(t) == hist[t][Len(hist[t])]

\* Thread t stands at the end of a cycle over [A, B] in which A failed and
\* B succeeded.
FellBackToB(t) ==
  /\ CycleEnded(t)
  /\ listURLs = <<"A", "B">>
  /\ Len(hist[t]) = 2
  /\ hist[t][1].url = "A" /\ hist[t][1].out = "failure"
  /\ hist[t][2].url = "B" /\ hist[t][2].out = "success"

\* C7: priority with fallback.  A cycle over [A, B] in which A fails and B
\* succeeds ends with the DomainSet equal to B's parsed content, readiness
\* true and the token stored for A as it was before the cycle.
PriorityFallback ==
  \A t \in Threads :
    FellBackToB(t) =>
      /\ refreshRet[t] = "nil"
      /\ domains = hist[t][2].domains
      /\ isReady
      /\ etags["A"] = snap[t].etags["A"]

\* C7 witness: A held token e1 and the set {a}; in the next cycle A failed
\* and B answered {b} with token e2.
FallbackKeepsTokenOfA ==
  \E t \in Threads :
    /\ FellBackToB(t)
    /\ snap[t].etags["A"] = "e1"
    /\ snap[t].domains = {<<"a">>}
    /\ hist[t][2].domains = {<<"b">>}
    /\ hist[t][2].etag = "e2"
    /\ etags["B"] = "e2"

\* Thread t stands at the end of a cycle whose last source reported
\* "unchanged" to a cache that was ready when the cycle began.
UnchangedWhileReady(t) ==
  /\ CycleEnded(t)
  /\ hist[t] # <<>>
  /\ LastOutcome(t).out = "unchanged"
  /\ snap[t].isReady

\* C8: conditional fetch no-op.  When a source reports "unchanged" and the
\* cache is ready, the cycle returns nil, the last-refresh timestamp is
\* advanced to the time of the check, and the DomainSet, the readiness flag
\* and the validator tokens are as they were.
ConditionalNoOp ==
  \A t \in Threads :
    UnchangedWhileReady(t) =>
      /\ refreshRet[t] = "nil"
      /\ lastRefresh = now
      /\ lastRefresh > snap[t].lastRefresh
      /\ domains = snap[t].domains
      /\ isReady
      /\ etags = snap[t].etags

\* C8 witness: A was loaded with token e1 and reports "unchanged" in the
\* next cycle.
UnchangedAfterLoad ==
  \E t \in Threads :
    /\ UnchangedWhileReady(t)
    /\ Len(hist[t]) = 1
    /\ hist[t][1].url = "A"
    /\ snap[t].etags["A"] = "e1"
    /\ snap[t].domains = {<<"a">>, <<"b">>}

\* C9: a ready cache holds a non-empty DomainSet, whatever the refresh
\* cycles returned.
ReadyHasData == isReady => domains # {}

\* C9 witness: the cache is ready and a cycle has just ended in which a
\* source answered 200 with a body without a usable entry.
ReadyAfterEmptyBody ==
  \E t \in Threads :
    /\ CycleEnded(t)
    /\ isReady
    /\ snap[t].isReady
    /\ \E k \in 1..Len(hist[t]) : hist[t][k].cause = "empty"

\* C10: Start returns nil whatever the initial refresh returned; it returns
\* after exactly one complete refresh cycle, run by the caller, and with
\* the background loop launched, never before; a failed initial refresh
\* leaves the cache not ready and the process running.
StartAlwaysSucceeds ==
  /\ [](/\ startRet \in {"none", "nil"}
        /\ startRet = "nil" => (startCycles = 1 /\ pc["loop"] # "off")
        /\ startRet = "none" => pc["loop"] = "off"
        /\ pc["main"] # "exited")
  /\ [][ (startRet = "none" /\ startRet' # "none")
         => /\ CycleEnded("main")
            /\ pc'["loop"] = "select"
            /\ refreshRet["main"] = "err" => ~isReady'
       ]_vars

\* C10 witness: the initial refresh failed, Start returned nil, the loop
\* waits for its first tick and main serves, not ready.
DegradedStart ==
  /\ startRet = "nil"
  /\ startCycles = 1
  /\ ~everLoaded
  /\ ~isReady
  /\ pc["loop"] = "select"
  /\ pc["main"] = "serving"

\* C11: cancellation is observed at the next wait boundary.  Once the
\* context is cancelled, the background loop starts no further refresh
\* cycle: standing at its select it leaves only by stopping, and a refresh
\* in flight is completed, not aborted.
CancelStopsLoop ==
  [][ ctxDone =>
        /\ pc["loop"] = "select" => pc'["loop"] \in {"select", "stopped"}
        /\ pc["loop"] \notin {"off", "select", "stopped", "r_done"}
             => pc'["loop"] # "stopped"
    ]_vars

\* C12: a failed refresh cycle never ends the scheduler.  The loop stops
\* only with the context cancelled and the process never exits; from the
\* end of any cycle the loop goes back to its select, where, as long as
\* the context is not cancelled, the next tick starts a full cycle at the
\* first source.
SchedulerSurvivesFailure ==
  /\ [](/\ pc["loop"] = "stopped" => ctxDone
        /\ pc["main"] # "exited"
        /\ (pc["loop"] = "select" /\ ~ctxDone) => ENABLED LoopTick)
  /\ [][ /\ (CycleEnded("loop") /\ pc'["loop"] # "r_done")
              => pc'["loop"] = "select"
         /\ (pc["loop"] = "select" /\ pc'["loop"] \notin {"select", "stopped"})
              => (pc'["loop"] = "iter" /\ idx'["loop"] = 1)
       ]_vars

\* C12 witness: with the single source A, the initial cycle and the first
\* cycle of the loop have failed, and the loop is fetching again.
RetryAfterFailures ==
  /\ listURLs = <<"A">>
  /\ startCycles = 1
  /\ ~everLoaded
  /\ ~ctxDone
  /\ now = 2
  /\ pc["loop"] = "http"

\* The handler of reader r has answered a POST with a non-empty email.
Validated(r) ==
  /\ rpc[r] = "returned"
  /\ rret[r].op = "IsDisposable"
  /\ remail[r] # <<>>

\* C13: the validation endpoint maps the verdict to the registration
\* outcome.  For a POST with a non-empty email the answer is 200 exactly
\* when IsDisposable reported (false, _, nil), the 400 with message id
\* 4000001 and the email and domain as context exactly when it reported
\* disposable, and the 400 "Invalid email format" exactly when it returned
\* an error; and an answer given while the cache is not ready to a
\* well-formed email is 200.
ValidateMapsVerdict ==
  /\ [](\A r \in Readers : Validated(r) =>
          /\ rresp[r].status \in {StatusOK, StatusBadRequest}
          /\ rresp[r].status = StatusOK
               <=> (rret[r].err = "nil" /\ ~rret[r].val)
          /\ (/\ rresp[r].status = StatusBadRequest
              /\ rresp[r].id = DisposableMessageID
              /\ rresp[r].email = remail[r]
              /\ rresp[r].domain = rret[r].domain)
               <=> (rret[r].err = "nil" /\ rret[r].val)
          /\ (/\ rresp[r].status = StatusBadRequest
              /\ rresp[r].text = "Invalid email format")
               <=> rret[r].err # "nil")
  /\ [][ \A r \in Readers :
           (/\ ~isReady
            /\ Returns(r, "IsDisposable")
            /\ remail'[r] # <<>>
            /\ WellFormed(remail'[r]))
             => rresp'[r].status = StatusOK
       ]_vars

\* C13 witness: with {b} loaded, the POST of " X@B\n" has been answered
\* with the 400 of message 4000001, carrying the email as sent and the
\* domain "b".
DisposableRejected ==
  \E r \in Readers :
    /\ Validated(r)
    /\ domains = {<<"b">>}
    /\ rresp[r] = [status |-> StatusBadRequest, id |-> DisposableMessageID,
                   text |-> "Disposable email addresses are not allowed",
                   ptr |-> "#/traits/email",
                   email |-> <<" ", "X", "@", "B", "\n">>,
                   domain |-> <<"b">>]

\* What lets the cycle of thread t go on to the next source after entry e:
\* a failure, or "unchanged" while the cache had not been ready.
PassesOn(t, e) ==
  \/ e.out = "failure"
  \/ e.out = "unchanged" /\ ~snap[t].isReady

\* What ends the cycle of thread t with nil: a success, or "unchanged"
\* while the cache was ready.
Terminates(t, e) ==
  \/ e.out = "success"
  \/ e.out = "unchanged" /\ snap[t].isReady

\* C14: sources are attempted strictly in configured order, each at most
\* once.  The k-th fetch of a cycle is of the k-th configured source, every
\* fetch before the last one ended in failure or in "unchanged" while not
\* ready, a fetch that ended in success or in "unchanged" while ready is
\* the last of its cycle and the cycle returns nil, and a fetch is in
\* flight only for the source right after those already tried.
StrictOrder ==
  \A t \in Threads :
    LET n == Len(hist[t])
    IN  /\ n <= Len(listURLs)
        /\ \A k \in 1..n : hist[t][k].url = listURLs[k]
        /\ \A k \in 1..(n - 1) : PassesOn(t, hist[t][k])
        /\ pc[t] \in {"f_etag", "http"} =>
             /\ idx[t] = n + 1
             /\ \A k \in 1..n : PassesOn(t, hist[t][k])
        /\ pc[t] = "http" => req[t].url = listURLs[n + 1]
        /\ (n > 0 /\ Terminates(t, hist[t][n])) =>
             /\ pc[t] \notin {"iter", "f_etag", "http", "af_read"}
             /\ CycleEnded(t) => refreshRet[t] = "nil"
        /\ (CycleEnded(t) /\ refreshRet[t] = "nil") =>
             (n > 0 /\ Terminates(t, hist[t][n]))
        /\ (CycleEnded(t) /\ refreshRet[t] = "err") => n = Len(listURLs)

\* C14 witness: a cycle over [A, B] in which A failed ended with nil on B's
\* "unchanged", the cache being ready.
SecondSourceUnchanged ==
  \E t \in Threads :
    /\ CycleEnded(t)
    /\ refreshRet[t] = "nil"
    /\ snap[t].isReady
    /\ Len(hist[t]) = 2
    /\ hist[t][1].url = "A" /\ hist[t][1].out = "failure"
    /\ hist[t][2].url = "B" /\ hist[t][2].out = "unchanged"

\* Thread t has a request to a source in flight.
FetchInFlight(t) == pc[t] = "http"

\* C15: the refresher holds no lock while a fetch is in flight.  A thread
\* with a request in flight holds neither the exclusive nor the shared
\* lock; the exclusive lock is held only inside the swap or the ready-check
\* on "unchanged", the shared lock only for the read of the token or of the
\* state that is logged; and while a fetch is in flight, however long, the
\* next step of every IsDisposable or IsReady call is enabled.
NoLockDuringFetch ==
  /\ muWriter \in Threads \cup {"none"}
  /\ \A t \in Threads :
       /\ FetchInFlight(t) => (muWriter = "none" /\ muReaders \cap Threads = {})
       /\ muWriter = t => pc[t] \in SwapSection \cup {"nm_cs"}
       /\ t \in muReaders => pc[t] \in {"f_etag", "af_read"}
       /\ FetchInFlight(t) => \A r \in Readers : ENABLED Reader(r)

\* C15 witness: the loop has a request in flight while a lookup, under the
\* shared lock, is reading the loaded set.
LookupDuringFetch ==
  \E r \in Readers :
    /\ FetchInFlight("loop")
    /\ isReady
    /\ rpc[r] = "d_lookup"
    /\ r \in muReaders

\* The next step of thread t reads a field of the cache: the token in
\* fetchFromURL, the flag in the ready-check on "unchanged", the copies of
\* handleAllRefreshFailures, and s.lastRefresh in the log line of a
\* successful refresh.
ReadsCache(t) == pc[t] \in {"f_etag", "nm_cs", "af_read", "sw_log"}

\* The next step of thread t writes a field of the cache.
WritesCache(t) == pc[t] \in SwapSection \cup {"nm_cs"}

\* The next step of reader r reads a field of the cache.
ReaderReadsCache(r) == rpc[r] \in {"d_ready", "d_lookup", "q_ready"}

\* C16: all shared cache state is protected by the one reader/writer lock.
\* Every step that writes the DomainSet, the tokens, the timestamp or the
\* flag is taken holding the exclusive lock, and every step that reads one
\* of them, in a lookup, a readiness query or the refresh path with its
\* logging, is taken holding at least the shared lock.
LockDiscipline ==
  /\ [](/\ \A t \in Threads :
             /\ WritesCache(t) => muWriter = t
             /\ ReadsCache(t) => (muWriter = t \/ t \in muReaders)
        /\ \A r \in Readers : ReaderReadsCache(r) => r \in muReaders)
  /\ [][ svc' # svc => (muWriter \in Threads /\ WritesCache(muWriter)) ]_vars

\* The cycle of thread t has had a success of source u that supplied a
\* token.
SuppliedToken(t, u) ==
  /\ hist[t] # <<>>
  /\ LastOutcome(t).url = u
  /\ LastOutcome(t).out = "success"
  /\ LastOutcome(t).etag # ""

\* C17: the token stored for a source changes only in a cycle in which that
\* source itself yielded success with a non-empty token, and becomes that
\* token.  Any step that changes the token of u is the store of a thread
\* whose last fetch was a success of u with a token; and at the end of a
\* cycle every other token (after a failure, an "unchanged", a success
\* without a token, or any outcome of another source) is what it was when
\* the cycle began.
TokenOnlyOnOwnSuccess ==
  /\ [](\A t \in Threads, u \in URLs :
          CycleEnded(t) =>
            etags[u] = IF SuppliedToken(t, u) THEN LastOutcome(t).etag
                       ELSE snap[t].etags[u])
  /\ [][ \A u \in URLs :
           etags'[u] # etags[u] =>
             \E t \in Threads :
               /\ muWriter = t
               /\ SuppliedToken(t, u)
               /\ etags'[u] = LastOutcome(t).etag
       ]_vars

\* C17 witness: A, whose token e1 was stored before, has answered a
\* successful fetch without a token, and e1 is still stored.
TokenKeptWithoutNewOne ==
  \E t \in Threads :
    /\ CycleEnded(t)
    /\ LastOutcome(t).url = "A"
    /\ LastOutcome(t).out = "success"
    /\ LastOutcome(t).etag = ""
    /\ snap[t].etags["A"] = "e1"
    /\ etags["A"] = "e1"

\* The positions of the failures in the history of the cycle of thread t
Failures(t) == {k \in 1..Len(hist[t]) : hist[t][k].out = "failure"}

\* The error of the last source that failed in the cycle of thread t
LastFailure(t) ==
  hist[t][CHOOSE k \in Failures(t) : \A j \in Failures(t) : j <= k].cause

\* C18: a refresh cycle returns nil exactly when some source yielded
\* success or "unchanged" while ready; every other cycle returns the
\* aggregate error, and the error it wraps (lastErr at the return) is the
\* failure of the last source that failed in the cycle.
RefreshResult ==
  \A t \in Threads :
    CycleEnded(t) =>
      /\ refreshRet[t] \in {"nil", "err"}
      /\ refreshRet[t] = "nil"
           <=> (hist[t] # <<>> /\ Terminates(t, LastOutcome(t)))
      /\ refreshRet[t] = "err" =>
           /\ lastErr[t] # "nil"
           /\ Failures(t) # {}
           /\ lastErr[t] = LastFailure(t)

\* The lines of a body: its maximal stretches without a line feed
LinesOf(body) ==
  LET n == Len(body)
      Bounds == {p \in (1..(n + 1)) \X (0..n) :
                   /\ p[1] <= p[2] + 1
                   /\ \A k \in p[1]..p[2] : body[k] # "\n"
                   /\ (p[1] = 1 \/ body[p[1] - 1] = "\n")
                   /\ (p[2] = n \/ body[p[2] + 1] = "\n")}
  IN  {SubSeq(body, p[1], p[2]) : p \in Bounds}

\* A line that counts: not blank, and not a comment, once trimmed
Usable(line) ==
  /\ TrimSpace(line) # <<>>
  /\ TrimSpace(line)[1] # "#"

\* The domain entries of a body
ExpectedDomains(body) ==
  {ToLower(TrimSpace(l)) : l \in {x \in LinesOf(body) : Usable(x)}}

\* Entry e of a cycle's history is a 200 response without a usable entry.
ZeroUsable(e) ==
  /\ e.status = StatusOK
  /\ ExpectedDomains(e.body) = {}

\* This step gives thread t the answer to its request.
Answered(t) == Len(hist'[t]) = Len(hist[t]) + 1

\* C19: a response with zero usable entries is a fetch failure, not an
\* empty success.  The step that receives it records a failure, changes
\* nothing of the cache, sets lastErr and moves to the next source,
\* exactly as the step that receives a transport or status failure; and a
\* cycle whose last answer had zero usable entries ends with the aggregate
\* error and the cache as it was when the cycle began.
EmptyIsFailure ==
  /\ [](\A t \in Threads :
          (CycleEnded(t) /\ hist[t] # <<>> /\ ZeroUsable(LastOutcome(t))) =>
            /\ LastOutcome(t).out = "failure"
            /\ refreshRet[t] = "err"
            /\ CacheState = snap[t])
  /\ [][ \A t \in Threads :
           LET e == hist'[t][Len(hist'[t])]
           IN  (Answered(t) /\ (ZeroUsable(e) \/ e.status \in {0, StatusServerError})) =>
                 /\ e.out = "failure"
                 /\ svc' = svc
                 /\ fetched'[t] = NoFetched
                 /\ lastErr'[t] # "nil"
                 /\ idx'[t] = idx[t] + 1
                 /\ pc'[t] = "iter"
       ]_vars

\* C19 witness: in a cycle over [A, B], A answered 200 with only a comment
\* and a blank line, and the cycle ended with B's content loaded and A's
\* token as before.
CommentOnlySkipped ==
  \E t \in Threads :
    /\ CycleEnded(t)
    /\ Len(hist[t]) = 2
    /\ hist[t][1].status = StatusOK
    /\ hist[t][1].body = BodyComment
    /\ hist[t][2].out = "success"
    /\ domains = hist[t][2].domains
    /\ etags["A"] = snap[t].etags["A"]

\* C20: parse policy.  For every body, read without error, the parsed
\* DomainSet is exactly the set of its lines, trimmed and lowercased, that
\* are not empty and do not begin with '#' once trimmed (and the parse is
\* an error exactly when that set is empty); every key is in trimmed and
\* lowercased form, so lines that differ only in case or in surrounding
\* whitespace are one key.
ParsePolicy ==
  (parseOut # NoParse /\ ~parseIn.ioerr) =>
    /\ parseOut.domains = ExpectedDomains(parseIn.body)
    /\ parseOut.err = IF ExpectedDomains(parseIn.body) = {} THEN "empty" ELSE "nil"
    /\ \A d \in parseOut.domains :
         /\ d = ToLower(TrimSpace(d))
         /\ d # <<>>
         /\ d[1] # "#"

\* C20 witness: "# a\n\nB\n  aB  \n" has been parsed to {b, ab}.
ExampleParsed ==
  /\ parseIn = [body |-> ExampleBody, ioerr |-> FALSE]
  /\ parseOut = [err |-> "nil", domains |-> {<<"b">>, <<"a", "b">>}]

\* The cycle of thread t has had no success so far.
NoSuccess(t) == \A k \in 1..Len(hist[t]) : hist[t][k].out # "success"

\* C21: "unchanged" while the cache has never been ready.  The ready-check
\* that finds the cache not ready changes nothing of the cache and moves to
\* the next source; a cycle that began not ready and had no success ends
\* as all-sources-failed with the cache as it was, not ready; and the cache
\* becomes ready only in a cycle whose last answer was a success, so that
\* a source that always reports "unchanged" never makes it ready.
UnchangedNeverLoads ==
  /\ [](\A t \in Threads :
          (CycleEnded(t) /\ ~snap[t].isReady /\ NoSuccess(t)) =>
            /\ refreshRet[t] = "err"
            /\ Len(hist[t]) = Len(listURLs)
            /\ CacheState = snap[t]
            /\ ~isReady)
  /\ [][ /\ \A t \in Threads :
              (pc[t] = "nm_cs" /\ pc'[t] # "nm_cs" /\ ~isReady) =>
                /\ svc' = svc
                /\ idx'[t] = idx[t] + 1
                /\ pc'[t] = "iter"
         /\ (~isReady /\ isReady') =>
              \E t \in Threads :
                /\ hist[t] # <<>>
                /\ LastOutcome(t).out = "success"
       ]_vars

\* C21 witness: after the initial cycle, the only source A reported
\* "unchanged" in the first cycle of the loop, which ended as
\* all-sources-failed with the cache not ready.
OnlySourceUnchanged ==
  /\ listURLs = <<"A">>
  /\ startCycles = 1
  /\ CycleEnded("loop")
  /\ refreshRet["loop"] = "err"
  /\ hist["loop"] # <<>>
  /\ LastOutcome("loop").out = "unchanged"
  /\ lastErr["loop"] = "nil"
  /\ ~isReady

\* C23: the health endpoint reflects the readiness flag at the time of the
\* request.  Its answer is 200 exactly when IsReady() returned true and 503
\* otherwise, and IsReady() returns the flag as it is at that instant; so
\* every answer before the first successful load is 503, and once a 200
\* has been given no later answer is 503.
HealthReflectsReadiness ==
  /\ [](\A r \in Readers :
          (rpc[r] = "returned" /\ rret[r].op = "IsReady") =>
            /\ rresp[r].status \in {StatusOK, StatusServiceUnavailable}
            /\ rresp[r].status = StatusOK <=> rret[r].val)
  /\ [][ \A r \in Readers :
           Returns(r, "IsReady") =>
             /\ rresp'[r].status = StatusOK <=> isReady
             /\ ~everLoaded => rresp'[r].status = StatusServiceUnavailable
             /\ readyObserved => rresp'[r].status = StatusOK
       ]_vars

\* C23 witness: the health endpoint's answer is 200 "pass" while a cycle of
\* the loop has just ended with every source failed.
HealthyAfterFailedCycle ==
  \E r \in Readers :
    /\ rpc[r] = "returned"
    /\ rret[r].op = "IsReady"
    /\ rresp[r] = [NoResp EXCEPT !.status = StatusOK, !.text = "pass"]
    /\ CycleFailed("loop")
    /\ LastOutcome("loop").out = "failure"

\* C25: a stored token implies readiness.  Whenever a non-empty token is
\* stored for some source the cache is ready; a request in flight carries
\* as If-None-Match exactly the token stored for its own URL (none when
\* none is stored), and while the cache is not ready no request carries
\* one.
TokenImpliesReady ==
  /\ \A u \in URLs : etags[u] # "" => isReady
  /\ \A t \in Threads :
       FetchInFlight(t) =>
         /\ req[t].url = listURLs[idx[t]]
         /\ req[t].ifNoneMatch = etags[req[t].url]
         /\ ~isReady => req[t].ifNoneMatch = ""

\* C25 witness: with the token e1 stored for A and none for B, the loop
\* has a request to B in flight that carries no token.
SecondSourceWithoutToken ==
  /\ FetchInFlight("loop")
  /\ etags = [u \in URLs |-> IF u = "A" THEN "e1" ELSE ""]
  /\ req["loop"] = [url |-> "B", ifNoneMatch |-> ""]

\* Thread t is inside refresh(), from its call to the use of its result.
InRefresh(t) ==
  pc[t] \in {"iter", "f_etag", "http", "nm_lock", "nm_cs", "sw_lock", "sw_log",
             "af_read", "r_done"} \cup SwapSection

\* C26: at most one refresh cycle is in progress at any time.  The initial
\* refresh of Start and a cycle of the loop are never both in progress:
\* the loop exists only once Start has returned; and every change of the
\* cache is made by the one thread that is inside refresh.
OneRefreshAtATime ==
  /\ [](/\ ~(InRefresh("main") /\ InRefresh("loop"))
        /\ pc["loop"] # "off" => pc["main"] \in {"returned", "serving", "exited"}
        /\ \A t \in Threads : ~InRefresh(t) => (hist[t] = <<>> /\ snap[t] = NoSnap))
  /\ [][ svc' # svc =>
           \E t \in Threads :
             /\ InRefresh(t)
             /\ muWriter = t
             /\ \A o \in Threads \ {t} : ~InRefresh(o) /\ pc'[o] = pc[o]
       ]_vars

\* C26 witness: main serves after an initial refresh that loaded the list,
\* and the loop is in the middle of the swap of its own cycle.
LoopSwapsWhileServing ==
  /\ pc["main"] = "serving"
  /\ startCycles = 1
  /\ pc["loop"] = "sw_last"
  /\ snap["loop"].isReady

\* Source u is configured and no fetch of it recorded in a cycle in
\* progress has ended otherwise than in success.
GoodSource(u) ==
  /\ \E k \in 1..Len(listURLs) : listURLs[k] = u
  /\ \A t \in Threads : \A k \in 1..Len(hist[t]) :
       hist[t][k].url = u => hist[t][k].out = "success"

\* C22: recovery from a degraded start.  With the context never cancelled,
\* the ticker firing and every request ending, if from some point on some
\* configured source answers every fetch with its list, then from some
\* point on the cache is ready and holds a loaded, non-empty set.
Recovery ==
  (<>[]GoodSource("A") \/ <>[]GoodSource("B"))
    => <>[](isReady /\ domains # {})

\* C22 witness: the initial refresh failed, Start returned nil, and the
\* loop has just made the cache ready in the first load ever.
LoopLoadsFirst ==
  /\ startRet = "nil"
  /\ startCycles = 1
  /\ ~everLoaded
  /\ pc["loop"] = "sw_etag"
  /\ isReady
  /\ domains # {}

\* The set that the list of source u parses to
SetOf(u) == parseTxtFile(ContentOf(u), FALSE).domains

\* C24: a cycle that ends as a successful no-op because source S reported
\* "unchanged" leaves in service the set that was loaded from S.
NoOpServesItsSource ==
  \A t \in Threads :
    (/\ CycleEnded(t)
     /\ refreshRet[t] = "nil"
     /\ LastOutcome(t).out = "unchanged")
      => domains = SetOf(LastOutcome(t).url)

====
